---- MODULE Spec2Model ----
(***************************************************************************)
(* Model of the MCP text editor server (src/mcp_text_editor/server.py):    *)
(* the five tool handlers (get / edit / create / append / delete) running  *)
(* against a file system that other writers may change at any time.        *)
(*                                                                         *)
(* Strings are sequences of one-character strings, so that endswith,      *)
(* splitlines and os.path.isabs are computed and not assumed.  The patch   *)
(* engine (TextEditor, text_editor.py) is not part of the sources at hand; *)
(* its operators follow sections 4.1-4.4 of the design document.           *)
(***************************************************************************)
EXTENDS Integers, Sequences, FiniteSets, TLC

VARIABLES
    disk,      \* path -> [exists, data]: the files on disk
    tool,      \* the handler of the current / last call ("none" before any)
    status,    \* "idle" | "running" | "returned" | "raised"
    n,         \* edit: number of file operations of the batch (len(files))
    i,         \* edit: number of file operations the loop has gone through
    pend,      \* append: what the handler holds between its two awaits
    results,   \* the payload built so far / returned: path -> entry
    error,     \* the message of the exception the call raised ("" if none)
    touched,   \* history: paths the current call has read or written
    last,      \* history: the handler step just taken (its input and effect)
    changed,   \* history: path -> the file as the current call last changed it
    calls      \* edit calls in flight at the same time: caller -> its progress

vars == <<disk, tool, status, n, i, pend, results, error, touched, last,
          changed, calls>>

(***************************************************************************)
(* Bounds of the model.                                                    *)
(***************************************************************************)
MaxFiles == 2      \* longest list of file operations in one call
MaxLines == 2      \* longest file (in lines) an operation may produce

(***************************************************************************)
(* Values.                                                                 *)
(***************************************************************************)
NL == "\n"
Null == -1                  \* None as the "end" of a patch or range
EmptyHash == <<>>           \* "" as a hash
NoneHash == <<"None">>      \* None as a hash
NoReason == "None"          \* None as a reason

PathA == <<"/", "a">>
PathB == <<"/", "b">>
PathRel == <<"r">>
Paths == {PathA, PathB, PathRel}

\* os.path.isabs on a POSIX system
isabs(p) == Len(p) > 0 /\ p[1] = "/"

NoFile == [exists |-> FALSE, data |-> <<>>]
File(c) == [exists |-> TRUE, data |-> c]

HasKey(r, k) == k \in DOMAIN r

Min(a, b) == IF a <= b THEN a ELSE b

(***************************************************************************)
(* Hasher (design 4.1): deterministic and injective on contents; never ""  *)
(* and never None.                                                         *)
(***************************************************************************)
hash(c) == <<"#">> \o c

(***************************************************************************)
(* File Reader (design 4.2).                                               *)
(***************************************************************************)
\* str.splitlines(keepends=True) for the terminator "\n"
RECURSIVE splitlines(_)
splitlines(s) ==
    IF s = <<>> THEN <<>>
    ELSE LET k == CHOOSE j \in 1..Len(s) :
                    /\ (s[j] = NL \/ j = Len(s))
                    /\ \A m \in 1..(j - 1) : s[m] # NL
         IN  <<SubSeq(s, 1, k)>> \o splitlines(SubSeq(s, k + 1, Len(s)))

\* "".join(lines)
RECURSIVE join(_)
join(lines) ==
    IF lines = <<>> THEN <<>> ELSE Head(lines) \o join(Tail(lines))

endswithNL(s) == s # <<>> /\ s[Len(s)] = NL

\* TextEditor.read_file_contents: (content, start, end, hash, total_lines, size);
\* raises when the file does not exist
read_file_contents(fs) ==
    IF ~fs.exists
    THEN [raised |-> TRUE, reason |-> "File not found",
          content |-> <<>>, hash |-> NoneHash, total_lines |-> 0]
    ELSE [raised |-> FALSE, reason |-> NoReason,
          content |-> fs.data, hash |-> hash(fs.data),
          total_lines |-> Len(splitlines(fs.data))]

(***************************************************************************)
(* Patches as the engine types them (design 3, Patch): start defaults to   *)
(* 1, end to None and range_hash to ""; contents is required.              *)
(***************************************************************************)
PatchStart(p) == IF HasKey(p, "start") THEN p.start ELSE 1
PatchEnd(p) == IF HasKey(p, "end") THEN p.end ELSE Null
PatchHash(p) == IF HasKey(p, "range_hash") THEN p.range_hash ELSE EmptyHash

\* a patch dict that cannot be typed as a Patch (contents is required)
Untypable(p) == ~HasKey(p, "contents")

\* end = None means "through end of file"
ResolveEnd(p, total) == IF PatchEnd(p) = Null THEN total ELSE PatchEnd(p)

(***************************************************************************)
(* Patch Validator and Orderer (design 4.3).                               *)
(***************************************************************************)
\* step 1: the only patches allowed on a path that does not exist
CreationStyle(p) == PatchStart(p) = 1 /\ PatchEnd(p) \in {Null, 0}

\* step 2: the file-level optimistic-lock check
FileHashOkLax(expected, full_hash) == expected = full_hash \/ expected = EmptyHash

FileHashOk(expected, full_hash) == expected = full_hash

\* step 3: the shape of a patch against a file of total lines
Classify(p, total) ==
    LET s == PatchStart(p)
        e == ResolveEnd(p, total)
    IN  IF s < 1 THEN "invalid"
        ELSE IF total = 0 /\ s = 1 THEN "create"
        ELSE IF s = total + 1 /\ PatchEnd(p) \in {Null, total} THEN "append"
        ELSE IF PatchEnd(p) # Null /\ s = PatchEnd(p) + 1 THEN "insert"
        ELSE IF s <= e /\ e <= total THEN "replace"
        ELSE "invalid"

\* step 4: the range hash of lines[start..end] of the current snapshot
RangeHash(lines, s, e) == hash(join(SubSeq(lines, s, e)))

RangeHashOk(p, lines) ==
    Classify(p, Len(lines)) = "replace" =>
        PatchHash(p) = RangeHash(lines, PatchStart(p), ResolveEnd(p, Len(lines)))

\* step 5: two replace/insert patches whose [start, end] intervals intersect
IntervalsMeet(p, q, total) ==
    /\ PatchStart(p) <= ResolveEnd(q, total)
    /\ PatchStart(q) <= ResolveEnd(p, total)

Ranged(p, total) == Classify(p, total) \in {"replace", "insert"}
TailPatch(p, total) == Classify(p, total) \in {"create", "append"}

Overlapping(patches, total) ==
    \/ \E a, b \in 1..Len(patches) :
          /\ a < b
          /\ Ranged(patches[a], total) /\ Ranged(patches[b], total)
          /\ IntervalsMeet(patches[a], patches[b], total)
    \/ Cardinality({a \in 1..Len(patches) : TailPatch(patches[a], total)}) > 1

\* steps 5-6: descending by start, ties broken by larger end first
Before(p, q, total) ==
    \/ PatchStart(p) > PatchStart(q)
    \/ /\ PatchStart(p) = PatchStart(q)
       /\ ResolveEnd(p, total) >= ResolveEnd(q, total)

RECURSIVE InsertSorted(_, _, _)
InsertSorted(p, sorted, total) ==
    IF sorted = <<>> THEN <<p>>
    ELSE IF Before(p, Head(sorted), total)
         THEN <<p>> \o sorted
         ELSE <<Head(sorted)>> \o InsertSorted(p, Tail(sorted), total)

RECURSIVE SortDescending(_, _)
SortDescending(patches, total) ==
    IF patches = <<>> THEN <<>>
    ELSE InsertSorted(Head(patches), SortDescending(Tail(patches), total), total)

\* the application order: replace/insert patches bottom-to-top, the one
\* create/append patch last
ApplyOrderAsGiven(patches, total) == patches

ApplyOrder(patches, total) ==
    LET isRanged(p) == Ranged(p, total)
        isTail(p) == TailPatch(p, total)
    IN  SortDescending(SelectSeq(patches, isRanged), total)
            \o SelectSeq(patches, isTail)

(***************************************************************************)
(* Patch Applier (design 4.4).                                             *)
(***************************************************************************)
WithNL(c) == IF c = <<>> \/ endswithNL(c) THEN c ELSE Append(c, NL)

\* one patch on the working line sequence; total and unterminated describe
\* the snapshot the patches were validated against
ApplyPatch(lines, p, total, unterminated) ==
    LET kind == Classify(p, total)
        s == PatchStart(p)
        e == ResolveEnd(p, total)
        c == p.contents
    IN  CASE kind = "create" -> splitlines(c)
          [] kind = "append" -> lines \o splitlines(WithNL(c))
          [] kind = "insert" ->
                LET k == Min(s - 1, Len(lines))
                IN  SubSeq(lines, 1, k) \o splitlines(WithNL(c))
                        \o SubSeq(lines, k + 1, Len(lines))
          [] OTHER ->
                LET new == IF e = total /\ unterminated THEN c ELSE WithNL(c)
                IN  SubSeq(lines, 1, s - 1) \o splitlines(new)
                        \o SubSeq(lines, e + 1, Len(lines))

RECURSIVE ApplyAll(_, _, _, _)
ApplyAll(lines, ordered, total, unterminated) ==
    IF ordered = <<>> THEN lines
    ELSE ApplyAll(ApplyPatch(lines, Head(ordered), total, unterminated),
                  Tail(ordered), total, unterminated)

Ok(h) == [result |-> "ok", reason |-> NoReason, file_hash |-> h]
Err(reason, h) == [result |-> "error", reason |-> reason, file_hash |-> h]

\* what the engine hands back: raised (an exception left the engine), the
\* EditResult when it did not, and the file as the engine leaves it
Raise(reason, fs) == [raised |-> TRUE, reason |-> reason,
                      entry |-> Err(reason, NoneHash), file |-> fs]
Fail(reason, h, fs) == [raised |-> FALSE, reason |-> reason,
                        entry |-> Err(reason, h), file |-> fs]
Done(data) == [raised |-> FALSE, reason |-> NoReason,
               entry |-> Ok(hash(data)), file |-> File(data)]

\* TextEditor.edit_file_contents(file_path, expected_hash, patches) on the
\* file fs
edit_file_contents(fs, expected_hash, patches) ==
    LET lines == splitlines(fs.data)
        total == Len(lines)
        full_hash == IF fs.exists THEN hash(fs.data) ELSE NoneHash
        unterminated == fs.data # <<>> /\ ~endswithNL(fs.data)
    IN  IF \E k \in 1..Len(patches) : Untypable(patches[k])
        THEN Raise("contents: field required", fs)
        ELSE IF ~fs.exists /\ ~(/\ expected_hash = EmptyHash
                                /\ \A k \in 1..Len(patches) : CreationStyle(patches[k]))
        THEN Fail("File not found", NoneHash, fs)
        ELSE IF fs.exists /\ ~FileHashOk(expected_hash, full_hash)
        THEN Fail("file hash mismatch", full_hash, fs)
        ELSE IF \E k \in 1..Len(patches) : Classify(patches[k], total) = "invalid"
        THEN Fail("invalid patch", full_hash, fs)
        ELSE IF \E k \in 1..Len(patches) : ~RangeHashOk(patches[k], lines)
        THEN Fail("range hash mismatch", full_hash, fs)
        ELSE IF Overlapping(patches, total)
        THEN Fail("overlapping patches", full_hash, fs)
        ELSE Done(join(ApplyAll(lines, ApplyOrder(patches, total), total, unterminated)))

(***************************************************************************)
(* The requests callers send.  Contents, hash tokens and patch lists are   *)
(* drawn from these sets.                                                  *)
(***************************************************************************)
CA == <<"a", NL>>                  \* "a\n"
CB == <<"b", NL>>                  \* "b\n"
CAB == <<"a", NL, "b", NL>>        \* "a\nb\n"
CU == <<"a">>                      \* "a": the last line has no terminator

\* what other writers leave on disk, per path
ExternalFiles(p) ==
    IF p = PathA THEN {NoFile, File(CA), File(CAB), File(CU)}
    ELSE IF p = PathB THEN {NoFile, File(CA)}
    ELSE {NoFile}

\* the file_hash tokens a caller may hold: "" or the hash of a content read
\* at some earlier time
Tokens == {EmptyHash, hash(CA), hash(CAB), hash(CU)}

Patch(s, e, c, h) == [start |-> s, end |-> e, contents |-> c, range_hash |-> h]

\* replace line 1 ("a\n") / line 2 ("b\n") / lines 1-2 ("a\nb\n")
Rep1 == Patch(1, 1, CB, hash(CA))
Rep2 == Patch(2, 2, CA, hash(CB))
Rep12(h) == Patch(1, 2, CB, h)
Rep22(h) == Patch(2, 2, <<>>, h)
\* delete line 1 ("a\n"): the lines below it move up
Del1 == Patch(1, 1, <<>>, hash(CA))
\* append after line 1, create
App2 == Patch(2, Null, CB, EmptyHash)
New1 == Patch(1, Null, CB, EmptyHash)
\* a patch without contents, a patch without end
NoContents == [start |-> 1, end |-> 1, range_hash |-> hash(CA)]
NoEnd == [start |-> 2, contents |-> <<>>, range_hash |-> hash(CB)]

\* two patches on intersecting ranges, in both orders, with the right range
\* hashes and without
OverlapLists ==
    {<<Rep12(hash(CAB)), Rep22(hash(CB))>>, <<Rep22(hash(CB)), Rep12(hash(CAB))>>,
     <<Rep12(EmptyHash), Rep22(EmptyHash)>>, <<Rep22(EmptyHash), Rep12(EmptyHash)>>}

\* one element of the "files" list of an edit request: edits of /a under a
\* token, overlapping edits of /a, edits under the empty token, a patch
\* without end, a deletion above a replacement, edits of /b, a relative path and an element without
\* "file_hash"
FileOp(p, h, ps) == [path |-> p, file_hash |-> h, patches |-> ps]

FileOps ==
    {FileOp(PathA, h, ps) :
        h \in {hash(CA), hash(CAB)},
        ps \in {<<>>, <<Rep1>>, <<Rep1, Rep2>>, <<Rep2, Rep1>>, <<App2>>,
                <<NoContents>>}}
    \cup {FileOp(PathA, h, ps) : h \in {hash(CA), hash(CAB)}, ps \in OverlapLists}
    \cup {FileOp(PathA, EmptyHash, ps) : ps \in {<<>>, <<Rep1>>, <<New1>>}}
    \cup {FileOp(PathA, hash(CAB), <<NoEnd>>)}
    \cup {FileOp(PathA, hash(CAB), ps) : ps \in {<<Del1, Rep2>>, <<Rep2, Del1>>}}
    \cup {FileOp(PathB, hash(CA), <<>>), FileOp(PathB, hash(CA), <<Rep1>>),
          FileOp(PathB, hash(CAB), <<Rep1>>)}
    \cup {FileOp(PathRel, hash(CA), <<Rep1>>)}
    \cup {[path |-> PathA, patches |-> <<Rep1>>]}

(***************************************************************************)
(* EditTextFileContentsHandler.run_tool, one iteration of its loop.        *)
(***************************************************************************)
\* the required fields of a file operation, in the order they are checked
MissingField(op) ==
    IF ~HasKey(op, "path") THEN "path"
    ELSE IF ~HasKey(op, "file_hash") THEN "file_hash"
    ELSE IF ~HasKey(op, "patches") THEN "patches"
    ELSE "none"

\* the exception that ends the whole call at this file operation, or ""
EditFatal(op) ==
    IF MissingField(op) = "path" THEN "Missing required field: path"
    ELSE IF MissingField(op) = "file_hash" THEN "Missing required field: file_hash"
    ELSE IF MissingField(op) = "patches" THEN "Missing required field: patches"
    ELSE IF ~isabs(op.path) THEN "File path must be absolute"
    ELSE ""

\* `not patches`
NeverEmpty(patches) == FALSE

IsEmptyPatchList(patches) == Len(patches) = 0

\* the patches handed to the engine
FirstPatchOnly(patches) == <<Head(patches)>>

EnginePatches(patches) == patches

EngineCall(path, expected_hash, patches) ==
    [path |-> path, expected_hash |-> expected_hash, patches |-> patches]

\* the body of the per-file try block on the file fs: the entry stored in
\* results, the file afterwards, the engine calls made, whether the file was
\* read and whether it was written
EditFile(fs, op) ==
    IF IsEmptyPatchList(op.patches)
    THEN [entry |-> Err("Empty patches list", op.file_hash), file |-> fs,
          engine |-> <<>>, read |-> FALSE, wrote |-> FALSE]
    ELSE LET ps == EnginePatches(op.patches)
             r == edit_file_contents(fs, op.file_hash, ps)
             cur == read_file_contents(r.file)
         IN  IF r.raised
             THEN [entry |-> Err(r.reason, IF cur.raised THEN NoneHash ELSE cur.hash),
                   file |-> r.file,
                   engine |-> <<EngineCall(op.path, op.file_hash, ps)>>,
                   read |-> TRUE, wrote |-> FALSE]
             ELSE [entry |-> r.entry, file |-> r.file,
                   engine |-> <<EngineCall(op.path, op.file_hash, ps)>>,
                   read |-> TRUE, wrote |-> r.entry.result = "ok"]

(***************************************************************************)
(* CreateTextFileHandler.run_tool.                                         *)
(***************************************************************************)
CreateArgs ==
    {[path |-> p, contents |-> c] : p \in {PathA, PathRel}, c \in {<<>>, CB, <<"b">>}}
    \cup {[path |-> PathA]}

\* the single creation patch of the handler
CreatePatchWithNL(contents) == Patch(1, Null, WithNL(contents), EmptyHash)

CreatePatch(contents) == Patch(1, Null, contents, EmptyHash)

\* the whole handler on the file fs at args.path
CreateFile(fs, args) ==
    LET quiet == [raised |-> TRUE, entry |-> Err("", NoneHash), file |-> fs,
                  engine |-> <<>>, access |-> FALSE]
    IN  IF ~HasKey(args, "path")
        THEN [quiet EXCEPT !.entry.reason = "Missing required argument: path"]
        ELSE IF ~HasKey(args, "contents")
        THEN [quiet EXCEPT !.entry.reason = "Missing required argument: contents"]
        ELSE IF ~isabs(args.path)
        THEN [quiet EXCEPT !.entry.reason = "File path must be absolute"]
        ELSE IF fs.exists
        THEN [quiet EXCEPT !.entry.reason = "File already exists", !.access = TRUE]
        ELSE LET ps == <<CreatePatch(args.contents)>>
                 r == edit_file_contents(fs, EmptyHash, ps)
             IN  [raised |-> r.raised, entry |-> r.entry, file |-> r.file,
                  engine |-> <<EngineCall(args.path, EmptyHash, ps)>>,
                  access |-> TRUE]

(***************************************************************************)
(* AppendTextFileContentsHandler.run_tool.                                 *)
(***************************************************************************)
AppendArgs ==
    {[path |-> p, contents |-> c, file_hash |-> h] :
        p \in {PathA, PathRel}, c \in {CB, <<"b">>}, h \in Tokens}
    \cup {[path |-> PathA, contents |-> CB]}

\* "Ensure the append content ends with newline"
append_content(contents) ==
    IF endswithNL(contents) THEN contents ELSE Append(contents, NL)

\* the single append patch of the handler
AppendPatchAtLast(total_lines, contents) ==
    Patch(total_lines, Null, contents, EmptyHash)

AppendPatch(total_lines, contents) ==
    Patch(total_lines + 1, Null, contents, EmptyHash)

\* the handler up to and including the hash verification: the exception it
\* raises ("" when it goes on to the engine) and whether it looked at the file
AppendCheck(fs, args) ==
    LET rd == read_file_contents(fs)
    IN  IF ~HasKey(args, "path")
        THEN [reason |-> "Missing required argument: path", access |-> FALSE]
        ELSE IF ~HasKey(args, "contents")
        THEN [reason |-> "Missing required argument: contents", access |-> FALSE]
        ELSE IF ~HasKey(args, "file_hash")
        THEN [reason |-> "Missing required argument: file_hash", access |-> FALSE]
        ELSE IF ~isabs(args.path)
        THEN [reason |-> "File path must be absolute", access |-> FALSE]
        ELSE IF ~fs.exists
        THEN [reason |-> "File does not exist", access |-> TRUE]
        ELSE IF rd.hash # args.file_hash
        THEN [reason |-> "File hash mismatch - file may have been modified",
              access |-> TRUE]
        ELSE [reason |-> "", access |-> TRUE]

(***************************************************************************)
(* DeleteTextFileContentsHandler.run_tool.                                 *)
(***************************************************************************)
Range(s, e, h) == [start |-> s, end |-> e, range_hash |-> h]

RangeLists ==
    {<<>>, <<Range(1, 1, hash(CA))>>, <<Range(2, 2, hash(CB))>>,
     <<Range(2, Null, hash(CB))>>,
     <<[start |-> 2, range_hash |-> hash(CB)]>>,
     <<Range(1, 2, hash(CAB)), Range(2, 2, hash(CB))>>}

DeleteArgs ==
    {[file_path |-> p, file_hash |-> h, ranges |-> rs] :
        p \in {PathA}, h \in Tokens, rs \in RangeLists}
    \cup {[file_path |-> PathRel, file_hash |-> hash(CA),
           ranges |-> <<Range(1, 1, hash(CA))>>]}
    \cup {[file_path |-> PathA, file_hash |-> hash(CA)]}

\* "Create patches for deletion (replacing content with empty string)"
DeletePatches(ranges) ==
    [k \in 1..Len(ranges) |->
        Patch(ranges[k].start, ranges[k].end, <<>>, ranges[k].range_hash)]

\* r["start"], r["end"], r["range_hash"] of the first range that lacks a
\* key: the key of the KeyError, or "none"
RangeKeyError(ranges) ==
    LET lacks(k) == \E f \in {"start", "end", "range_hash"} : ~HasKey(ranges[k], f)
        bad == {k \in 1..Len(ranges) : lacks(k)}
        k0 == CHOOSE k \in bad : \A m \in bad : k <= m
    IN  IF bad = {} THEN "none"
        ELSE IF ~HasKey(ranges[k0], "start") THEN "start"
        ELSE IF ~HasKey(ranges[k0], "end") THEN "end"
        ELSE "range_hash"

\* the whole handler on the file fs at args.file_path
DeleteFile(fs, args) ==
    LET quiet == [raised |-> TRUE, entry |-> Err("", NoneHash), file |-> fs,
                  engine |-> <<>>, access |-> FALSE]
    IN  IF ~HasKey(args, "file_path")
        THEN [quiet EXCEPT !.entry.reason = "Missing required argument: file_path"]
        ELSE IF ~HasKey(args, "file_hash")
        THEN [quiet EXCEPT !.entry.reason = "Missing required argument: file_hash"]
        ELSE IF ~HasKey(args, "ranges")
        THEN [quiet EXCEPT !.entry.reason = "Missing required argument: ranges"]
        ELSE IF ~isabs(args.file_path)
        THEN [quiet EXCEPT !.entry.reason = "File path must be absolute"]
        ELSE IF ~fs.exists
        THEN [quiet EXCEPT !.entry.reason = "File does not exist", !.access = TRUE]
        ELSE IF RangeKeyError(args.ranges) # "none"
        THEN [quiet EXCEPT !.entry.reason = RangeKeyError(args.ranges),
                           !.access = TRUE]
        ELSE LET ps == DeletePatches(args.ranges)
                 r == edit_file_contents(fs, args.file_hash, ps)
             IN  [raised |-> r.raised, entry |-> r.entry, file |-> r.file,
                  engine |-> <<EngineCall(args.file_path, args.file_hash, ps)>>,
                  access |-> TRUE]

(***************************************************************************)
(* GetTextFileContentsHandler.run_tool and the reader behind it.           *)
(***************************************************************************)
ReadRanges ==
    {<<[start |-> 1, end |-> Null]>>, <<[start |-> 1, end |-> 1], [start |-> 1]>>,
     <<[start |-> 3, end |-> Null]>>}

ReadItems ==
    {[file_path |-> PathA, ranges |-> rs] : rs \in ReadRanges}
    \cup {[file_path |-> PathB, ranges |-> <<[start |-> 1, end |-> Null]>>]}
    \cup {[file_path |-> PathRel, ranges |-> <<[start |-> 1, end |-> Null]>>]}
    \cup {[ranges |-> <<[start |-> 1, end |-> Null]>>]}

RECURSIVE SeqsUpTo(_, _)
SeqsUpTo(S, len) ==
    IF len = 0 THEN {<<>>}
    ELSE LET shorter == SeqsUpTo(S, len - 1)
         IN  shorter \cup {Append(q, x) : q \in shorter, x \in S}

\* design 4.2, read_ranges: one RangeSpec against the lines of a file
RangeInvalid(rg, total) ==
    LET e == IF HasKey(rg, "end") THEN rg.end ELSE Null
    IN  \/ rg.start < 1
        \/ rg.start > total /\ total > 0
        \/ e # Null /\ e < rg.start

RangeResult(lines, rg) ==
    LET total == Len(lines)
        given == IF HasKey(rg, "end") THEN rg.end ELSE Null
        e == IF given = Null THEN total ELSE Min(given, total)
        content == join(SubSeq(lines, rg.start, e))
    IN  [content |-> content, start |-> rg.start, end |-> e,
         range_hash |-> hash(content), total_lines |-> total,
         content_size |-> Len(content)]

\* the entry of one file in the mapping a read returns
ReadEntry(fs, ranges) ==
    LET lines == splitlines(fs.data)
    IN  IF ~fs.exists
        THEN [result |-> "error", reason |-> "File not found"]
        ELSE IF \E k \in 1..Len(ranges) : RangeInvalid(ranges[k], Len(lines))
        THEN [result |-> "error", reason |-> "invalid range"]
        ELSE [result |-> "ok",
              ranges |-> [k \in 1..Len(ranges) |-> RangeResult(lines, ranges[k])],
              file_hash |-> hash(fs.data)]

\* TextEditor.read_multiple_ranges: a mapping keyed by path; a path listed
\* twice keeps the entry of its last listing
read_multiple_ranges(d, files) ==
    LET listed == {files[k].file_path : k \in 1..Len(files)}
        final(p) == CHOOSE k \in 1..Len(files) :
                        /\ files[k].file_path = p
                        /\ \A m \in 1..Len(files) : files[m].file_path = p => m <= k
    IN  [p \in listed |-> ReadEntry(d[p], files[final(p)].ranges)]

\* the checks the handler makes before it calls the reader: the exception
\* they raise, or ""
GetFatal(files) ==
    LET bad == {k \in 1..Len(files) :
                    ~HasKey(files[k], "file_path") \/ ~isabs(files[k].file_path)}
        k0 == CHOOSE k \in bad : \A m \in bad : k <= m
    IN  IF bad = {} THEN ""
        ELSE IF ~HasKey(files[k0], "file_path")
        THEN "Missing required argument: file_path"
        ELSE "File path must be absolute"

\* the response built from the reader's result
GetResponseStrict(result) ==
    IF \E p \in DOMAIN result : result[p].result = "error"
    THEN [raised |-> TRUE, payload |-> result]
    ELSE [raised |-> FALSE, payload |-> result]

GetResponse(result) == [raised |-> FALSE, payload |-> result]

(***************************************************************************)
(* The state machine.                                                      *)
(***************************************************************************)
NoResults == <<>>
NoPend == [path |-> <<>>]

\* the callers whose edit calls may be in flight together, and a caller
\* that has no call in flight
Callers == {1, 2}
NoCall == [pc |-> "idle", op |-> FileOp(<<>>, EmptyHash, <<>>), snap |-> NoFile,
           entry |-> Err("", NoneHash), late |-> FALSE, order |-> 0]
NoCalls == [c \in Callers |-> NoCall]
Put(map, p, e) == [q \in DOMAIN map \cup {p} |-> IF q = p THEN e ELSE map[q]]
Lines(fs) == Len(splitlines(fs.data))

Init ==
    /\ disk \in [Paths -> UNION {ExternalFiles(p) : p \in Paths}]
    /\ \A p \in Paths : disk[p] \in ExternalFiles(p)
    /\ tool = "none"
    /\ status = "idle"
    /\ n = 0
    /\ i = 0
    /\ pend = NoPend
    /\ results = NoResults
    /\ error = ""
    /\ touched = {}
    /\ last = [tool |-> "none"]
    /\ changed = NoResults
    /\ calls = NoCalls

\* another writer creates, replaces or removes a file, while the server
\* waits for a request or between two steps of a call
ExternalWrite ==
    \E p \in Paths :
      \E fs \in ExternalFiles(p) :
        /\ status \in {"idle", "running"}
        /\ fs # disk[p]
        /\ disk' = [disk EXCEPT ![p] = fs]
        /\ last' = [tool |-> "external"]
        /\ UNCHANGED <<tool, status, n, i, pend, results, error, touched, changed, calls>>

\* edit_text_file_contents is called: the checks before the loop
EditBegin ==
    \E hasFiles \in BOOLEAN, len \in 0..MaxFiles :
        /\ status = "idle"
        /\ hasFiles \/ len = 0
        /\ tool' = "edit"
        /\ n' = len
        /\ i' = 0
        /\ pend' = NoPend
        /\ results' = NoResults
        /\ touched' = {}
        /\ status' = IF ~hasFiles THEN "raised"
                     ELSE IF len = 0 THEN "returned" ELSE "running"
        /\ error' = IF hasFiles THEN "" ELSE "Missing required argument: files"
        /\ last' = [tool |-> "edit", step |-> "begin"]
        /\ changed' = NoResults
        /\ UNCHANGED <<disk, calls>>

\* one iteration of the loop over the file operations; the handler returns
\* after the last one
EditStep ==
    \E op \in FileOps :
        /\ tool = "edit" /\ status = "running" /\ i < n
        /\ IF EditFatal(op) # ""
           THEN /\ status' = "raised"
                /\ error' = EditFatal(op)
                /\ last' = [tool |-> "edit", step |-> "fatal", op |-> op]
                /\ UNCHANGED <<disk, i, results, touched, changed>>
           ELSE LET r == EditFile(disk[op.path], op)
                IN  /\ Lines(r.file) <= MaxLines
                    /\ disk' = [disk EXCEPT ![op.path] = r.file]
                    /\ results' = Put(results, op.path, r.entry)
                    /\ i' = i + 1
                    /\ status' = IF i + 1 = n THEN "returned" ELSE "running"
                    /\ touched' = IF r.read \/ r.wrote
                                  THEN touched \cup {op.path} ELSE touched
                    /\ last' = [tool |-> "edit", step |-> "file", op |-> op,
                                pre |-> disk[op.path], entry |-> r.entry,
                                engine |-> r.engine, read |-> r.read,
                                wrote |-> r.wrote]
                    /\ changed' = IF r.wrote /\ r.file # disk[op.path]
                                  THEN Put(changed, op.path, r.file) ELSE changed
                    /\ UNCHANGED error
        /\ UNCHANGED <<tool, n, pend, calls>>

\* create_text_file, from call to return
Create ==
    \E args \in CreateArgs :
        LET fs == IF HasKey(args, "path") THEN disk[args.path] ELSE NoFile
            r == CreateFile(fs, args)
        IN  /\ status = "idle"
            /\ Lines(r.file) <= MaxLines
            /\ tool' = "create"
            /\ status' = IF r.raised THEN "raised" ELSE "returned"
            /\ error' = IF r.raised THEN r.entry.reason ELSE ""
            /\ results' = IF r.raised THEN NoResults ELSE r.entry
            /\ disk' = IF HasKey(args, "path")
                       THEN [disk EXCEPT ![args.path] = r.file] ELSE disk
            /\ touched' = IF r.access THEN {args.path} ELSE {}
            /\ last' = [tool |-> "create", args |-> args, pre |-> fs,
                        engine |-> r.engine]
            /\ n' = 0 /\ i' = 0 /\ pend' = NoPend
            /\ UNCHANGED <<changed, calls>>

\* append_text_file_contents up to its first await: validation, the read of
\* the file and the hash verification
AppendRead ==
    \E args \in AppendArgs :
        LET fs == IF HasKey(args, "path") THEN disk[args.path] ELSE NoFile
            c == AppendCheck(fs, args)
        IN  /\ status = "idle"
            /\ tool' = "append"
            /\ status' = IF c.reason = "" THEN "running" ELSE "raised"
            /\ error' = c.reason
            /\ results' = NoResults
            /\ pend' = IF c.reason = ""
                       THEN [path |-> args.path, args |-> args,
                             content |-> read_file_contents(fs).content,
                             total_lines |-> read_file_contents(fs).total_lines]
                       ELSE NoPend
            /\ touched' = IF c.access THEN {args.path} ELSE {}
            /\ last' = [tool |-> "append", step |-> "read", args |-> args,
                        pre |-> fs, engine |-> <<>>]
            /\ n' = 0 /\ i' = 0
            /\ UNCHANGED <<disk, changed, calls>>

\* append_text_file_contents from the engine call to the return
AppendEdit ==
    /\ tool = "append" /\ status = "running"
    /\ LET args == pend.args
           ps == <<AppendPatch(pend.total_lines, append_content(args.contents))>>
           r == edit_file_contents(disk[args.path], args.file_hash, ps)
       IN  /\ Lines(r.file) <= MaxLines
           /\ status' = IF r.raised THEN "raised" ELSE "returned"
           /\ error' = IF r.raised THEN r.entry.reason ELSE ""
           /\ results' = IF r.raised THEN NoResults ELSE r.entry
           /\ disk' = [disk EXCEPT ![args.path] = r.file]
           /\ last' = [tool |-> "append", step |-> "edit", args |-> args,
                       pre |-> disk[args.path], content |-> pend.content,
                       total_lines |-> pend.total_lines,
                       engine |-> <<EngineCall(args.path, args.file_hash, ps)>>]
    /\ pend' = NoPend
    /\ UNCHANGED <<tool, n, i, touched, changed, calls>>

\* delete_text_file_contents, from call to return
Delete ==
    \E args \in DeleteArgs :
        LET fs == IF HasKey(args, "file_path") THEN disk[args.file_path] ELSE NoFile
            r == DeleteFile(fs, args)
        IN  /\ status = "idle"
            /\ tool' = "delete"
            /\ status' = IF r.raised THEN "raised" ELSE "returned"
            /\ error' = IF r.raised THEN r.entry.reason ELSE ""
            /\ results' = IF r.raised THEN NoResults ELSE r.entry
            /\ disk' = IF HasKey(args, "file_path")
                       THEN [disk EXCEPT ![args.file_path] = r.file] ELSE disk
            /\ touched' = IF r.access THEN {args.file_path} ELSE {}
            /\ last' = [tool |-> "delete", args |-> args, pre |-> fs,
                        engine |-> r.engine]
            /\ n' = 0 /\ i' = 0 /\ pend' = NoPend
            /\ UNCHANGED <<changed, calls>>

\* get_text_file_contents, from call to return
Get ==
    \E files \in SeqsUpTo(ReadItems, MaxFiles) :
        LET fatal == GetFatal(files)
            r == GetResponse(read_multiple_ranges(disk, files))
        IN  /\ status = "idle"
            /\ tool' = "read"
            /\ status' = IF fatal # "" \/ r.raised THEN "raised" ELSE "returned"
            /\ error' = IF fatal # "" THEN fatal
                        ELSE IF r.raised THEN "Error processing request" ELSE ""
            /\ results' = IF fatal # "" \/ r.raised THEN NoResults ELSE r.payload
            /\ touched' = IF fatal # "" THEN {}
                          ELSE {files[k].file_path : k \in 1..Len(files)}
            /\ last' = [tool |-> "read", files |-> files]
            /\ n' = 0 /\ i' = 0 /\ pend' = NoPend
            /\ UNCHANGED <<changed, calls>>
            /\ UNCHANGED disk

\* call_tool hands the response (or the exception) to the caller and the
\* server waits for the next request
Respond ==
    /\ status \in {"returned", "raised"}
    /\ status' = "idle"
    /\ tool' = "none"
    /\ n' = 0 /\ i' = 0
    /\ pend' = NoPend
    /\ results' = NoResults
    /\ error' = ""
    /\ touched' = {}
    /\ last' = [tool |-> "none"]
    /\ changed' = NoResults
    /\ UNCHANGED <<disk, calls>>

Next ==
    \/ ExternalWrite
    \/ Respond
    \/ EditBegin
    \/ EditStep
    \/ Create
    \/ AppendRead
    \/ AppendEdit
    \/ Delete
    \/ Get

Spec == Init /\ [][Next]_vars

(***************************************************************************)
(* Two edit calls in flight at the same time.  The handlers are coroutines *)
(* of one event loop and hold no lock; a call is suspended at the engine's *)
(* file I/O (design 5), so the read of the file and the write of the       *)
(* result are two steps, and steps of the other call may come in between.  *)
(***************************************************************************)
\* rewrite line 1 ("a\n") as it is
Same1 == Patch(1, 1, CA, hash(CA))

\* the single file operation of a call: an edit of /a under a token
RaceOps ==
    {FileOp(PathA, h, ps) :
        h \in {hash(CA), hash(CAB)},
        ps \in {<<Rep1>>, <<Rep2>>, <<Del1>>, <<App2>>, <<Same1>>}}

\* the file after the engine's write: the result replaces whatever is on
\* disk at that time (rename over the target path); a failed edit writes
\* nothing
WriteBackIfUnchanged(cur, snap, r) == IF r.wrote /\ cur = snap THEN r.file ELSE cur

WriteBack(cur, snap, r) == IF r.wrote THEN r.file ELSE cur

\* the calls that have returned
Returned == {c \in Callers : calls[c].pc = "done"}

\* edit_text_file_contents is called with one file operation; the handler
\* goes up to the engine call
EditCall(c) ==
    \E op \in RaceOps :
        /\ calls[c].pc = "idle"
        /\ EditFatal(op) = "" /\ ~IsEmptyPatchList(op.patches)
        /\ calls' = [calls EXCEPT ![c] = [NoCall EXCEPT !.pc = "called", !.op = op]]
        /\ UNCHANGED <<disk, tool, status, n, i, pend, results, error, touched, last,
                       changed>>

\* the engine reads the file: the snapshot the patches are validated against
EngineRead(c) ==
    /\ calls[c].pc = "called"
    /\ calls' = [calls EXCEPT ![c] = [@ EXCEPT !.pc = "read",
                                               !.snap = disk[calls[c].op.path],
                                               !.late = Returned # {}]]
    /\ UNCHANGED <<disk, tool, status, n, i, pend, results, error, touched, last,
                       changed>>

\* the engine validates the patches against its snapshot, applies them and
\* writes the result; the handler stores the entry and returns
EngineWrite(c) ==
    LET op == calls[c].op
        r == EditFile(calls[c].snap, op)
    IN  /\ calls[c].pc = "read"
        /\ Lines(r.file) <= MaxLines
        /\ disk' = [disk EXCEPT ![op.path] = WriteBack(@, calls[c].snap, r)]
        /\ calls' = [calls EXCEPT ![c] = [@ EXCEPT !.pc = "done",
                                                   !.entry = r.entry,
                                                   !.order = Cardinality(Returned) + 1]]
        /\ UNCHANGED <<tool, status, n, i, pend, results, error, touched, last,
                       changed>>

RaceNext == \E c \in Callers : EditCall(c) \/ EngineRead(c) \/ EngineWrite(c)

Race == Init /\ [][RaceNext]_vars

(***************************************************************************)
(* Properties.                                                             *)
(***************************************************************************)
\* the step just taken processed a file operation of an edit batch
EditedFile == last.tool = "edit" /\ last.step = "file"

\* the hash of what is on disk, None when there is nothing to read
CurrentHash(fs) == IF fs.exists THEN hash(fs.data) ELSE NoneHash

\* the file operation was sent with a file_hash that is not the hash of the
\* content the file had when the operation was processed
StaleEdit ==
    /\ EditedFile
    /\ last.pre.exists
    /\ last.op.file_hash # hash(last.pre.data)

\* C1: an Edit of an existing file under a file_hash that differs from the
\* hash of the file's current content gets an error entry for that file and
\* leaves the file's content as it was, whatever edits and external
\* modifications came before.
C1_StaleEditRejected ==
    StaleEdit =>
        /\ results[last.op.path].result = "error"
        /\ disk[last.op.path] = last.pre

\* a stale token on an edit that would apply under a fresh one, processed as
\* the second file operation of its batch
C1_Witness ==
    /\ StaleEdit
    /\ i = 2
    /\ last.op = FileOp(PathA, hash(CAB), <<Rep1>>)
    /\ last.pre = File(CA)

\* the exceptions of an edit call whose request could not be parsed
RequestUnparsable ==
    error \in {"Missing required argument: files",
               "Missing required field: path",
               "Missing required field: file_hash",
               "Missing required field: patches"}

\* C2: in an Edit batch a failure on one file is recorded as that file's
\* error entry, every file operation gone through has its entry, the call
\* returns only after the whole list, and the call as a whole fails only
\* when the request cannot be parsed.
C2_PerFileIsolation ==
    tool = "edit" =>
        /\ EditedFile => results[last.op.path] = last.entry
        /\ status = "returned" => i = n
        /\ status = "raised" => RequestUnparsable

\* C3: a request with a relative path fails before any file access: when the
\* error is raised the call has read or written no file.
C3_RelativePathBeforeAccess ==
    status = "raised" /\ error = "File path must be absolute" => touched = {}

\* C4: every per-file failure entry of an Edit carries the hash of the file's
\* content currently on disk, or null when the file cannot be read.
C4_FailureCarriesCurrentHash ==
    EditedFile /\ last.entry.result = "error" =>
        last.entry.file_hash = CurrentHash(disk[last.op.path])

\* a create call with both arguments and an absolute path
CreateCalled ==
    /\ last.tool = "create"
    /\ HasKey(last.args, "path") /\ HasKey(last.args, "contents")
    /\ isabs(last.args.path)

\* C5: Create on a path that exists fails and leaves the file as it was;
\* Create on a path that does not exist leaves a file with exactly the given
\* contents, and the identical call made again fails and changes nothing.
C5_CreateOnce ==
    CreateCalled =>
        LET path == last.args.path
            again == CreateFile(disk[path], last.args)
        IN  IF last.pre.exists
            THEN status = "raised" /\ disk[path] = last.pre
            ELSE /\ status = "returned"
                 /\ results.result = "ok"
                 /\ disk[path] = File(last.args.contents)
                 /\ again.raised /\ again.file = disk[path]

\* a file created from contents that do not end in a line terminator
C5_Witness ==
    /\ CreateCalled
    /\ ~last.pre.exists
    /\ status = "returned"
    /\ last.args.contents = <<"b">>

\* an append call with all its arguments and an absolute path
AppendCalled ==
    /\ last.tool = "append"
    /\ HasKey(last.args, "path") /\ HasKey(last.args, "contents")
    /\ HasKey(last.args, "file_hash")
    /\ isabs(last.args.path)

\* C6: Append compares the caller's file_hash with the hash of the current
\* content before it builds a patch: when they differ, or the file does not
\* exist, the call fails, the engine is not called and the file is unchanged;
\* when they match, the engine gets exactly one patch, with
\* start = total_lines + 1, end = null and an empty range_hash.
C6_AppendChecksFirst ==
    AppendCalled =>
        LET path == last.args.path
            matches == /\ last.pre.exists
                       /\ hash(last.pre.data) = last.args.file_hash
        IN  /\ last.step = "read" /\ ~matches =>
                /\ status = "raised"
                /\ last.engine = <<>>
                /\ disk[path] = last.pre
            /\ last.step = "read" /\ matches =>
                /\ status = "running"
                /\ pend.total_lines = Len(splitlines(last.pre.data))
            /\ last.step = "edit" =>
                /\ Len(last.engine) = 1
                /\ last.engine[1].path = path
                /\ last.engine[1].expected_hash = last.args.file_hash
                /\ Len(last.engine[1].patches) = 1
                /\ last.engine[1].patches[1].start = last.total_lines + 1
                /\ last.engine[1].patches[1].end = Null
                /\ last.engine[1].patches[1].range_hash = EmptyHash

\* an append that went through the engine and was applied
C6_Witness ==
    /\ AppendCalled
    /\ last.step = "edit"
    /\ status = "returned"
    /\ results.result = "ok"
    /\ disk[last.args.path] = File(CAB)

\* a delete call that satisfies the declared schema: all three arguments, and
\* start and range_hash in every range (end may be absent)
DeleteCalled ==
    /\ last.tool = "delete"
    /\ HasKey(last.args, "file_path") /\ HasKey(last.args, "file_hash")
    /\ HasKey(last.args, "ranges")
    /\ isabs(last.args.file_path)
    /\ \A k \in 1..Len(last.args.ranges) :
          HasKey(last.args.ranges[k], "start") /\ HasKey(last.args.ranges[k], "range_hash")

\* the file operation of the Edit a delete request stands for: one patch per
\* range, in the same order, contents = "", end absent where the range has none
AsEditPatch(rg) ==
    IF HasKey(rg, "end")
    THEN Patch(rg.start, rg.end, <<>>, rg.range_hash)
    ELSE [start |-> rg.start, contents |-> <<>>, range_hash |-> rg.range_hash]

AsEdit(args) ==
    FileOp(args.file_path, args.file_hash,
           [k \in 1..Len(args.ranges) |-> AsEditPatch(args.ranges[k])])

\* C7: for every request that satisfies the declared schema, Delete-range
\* ends as the Edit it stands for: the same resulting file, ok with the same
\* hash when the Edit is ok, a failure when the Edit fails.
C7_DeleteIsEdit ==
    DeleteCalled =>
        LET e == EditFile(last.pre, AsEdit(last.args))
        IN  /\ disk[last.args.file_path] = e.file
            /\ IF e.entry.result = "ok"
               THEN status = "returned" /\ results = e.entry
               ELSE status = "raised" \/ results.result = "error"

\* a read whose files all have an absolute file_path
ReadCalled == last.tool = "read" /\ GetFatal(last.files) = ""

\* C8: a multi-file Read returns a mapping keyed by path in which a missing
\* file has an error entry while every other file has its contents and
\* hashes; one file's error does not make the call fail.
C8_ReadIsolation ==
    ReadCalled =>
        /\ status = "returned"
        /\ DOMAIN results = {last.files[k].file_path : k \in 1..Len(last.files)}
        /\ \A k \in 1..Len(last.files) :
              LET p == last.files[k].file_path
                  whole == <<[start |-> 1, end |-> Null]>>
                  final == \A m \in (k + 1)..Len(last.files) :
                               last.files[m].file_path # p
              IN  /\ ~disk[p].exists => results[p].result = "error"
                  /\ disk[p].exists /\ final /\ last.files[k].ranges = whole =>
                        /\ results[p].result = "ok"
                        /\ results[p].file_hash = hash(disk[p].data)
                        /\ results[p].ranges[1].content = disk[p].data
                        /\ results[p].ranges[1].range_hash = hash(disk[p].data)

\* /a is missing, /b is read in the same call
C8_Witness ==
    /\ ReadCalled
    /\ Len(last.files) = 2
    /\ last.files[1].file_path = PathA /\ last.files[2].file_path = PathB
    /\ ~disk[PathA].exists /\ disk[PathB] = File(CA)
    /\ results[PathA].result = "error"
    /\ results[PathB].result = "ok"

\* C9: a file operation with an empty patches list gets the error "Empty
\* patches list" without touching disk: the engine is not called, the file is
\* neither read nor written, and the loop goes on to the remaining files.
C9_EmptyPatchesUntouched ==
    EditedFile /\ last.op.patches = <<>> =>
        /\ last.entry.result = "error"
        /\ last.entry.reason = "Empty patches list"
        /\ results[last.op.path] = last.entry
        /\ last.engine = <<>>
        /\ ~last.read /\ ~last.wrote
        /\ disk[last.op.path] = last.pre
        /\ status = IF i < n THEN "running" ELSE "returned"

\* the empty list came first and the next file of the batch was edited
C9_Witness ==
    /\ EditedFile
    /\ i = 2
    /\ last.op.path = PathB /\ last.entry.result = "ok"
    /\ PathA \in DOMAIN results
    /\ results[PathA].reason = "Empty patches list"
    /\ touched = {PathB}

\* the lines a patch spans in a file of total lines
Span(p, total) == PatchStart(p)..ResolveEnd(p, total)

\* two patches of the file operation span a common line
IntersectingPatches ==
    /\ EditedFile
    /\ \E a, b \in 1..Len(last.op.patches) :
          /\ a # b
          /\ ~Untypable(last.op.patches[a]) /\ ~Untypable(last.op.patches[b])
          /\ Span(last.op.patches[a], Lines(last.pre))
                \cap Span(last.op.patches[b], Lines(last.pre)) # {}

\* C10: an Edit with two patches on intersecting line ranges is rejected with
\* an error, in either order and whatever the hashes, and the file is left
\* exactly as it was.
C10_OverlapRejected ==
    IntersectingPatches =>
        /\ last.entry.result = "error"
        /\ results[last.op.path].result = "error"
        /\ disk[last.op.path] = last.pre

\* the overlap is what rejects the edit: file hash and range hashes are right
C10_Witness ==
    /\ IntersectingPatches
    /\ last.pre = File(CAB)
    /\ last.op = FileOp(PathA, hash(CAB), <<Rep22(hash(CB)), Rep12(hash(CAB))>>)
    /\ last.entry.reason = "overlapping patches"

\* the same file operation with its two patches in the other order
SwappedOp(op) == [op EXCEPT !.patches = <<op.patches[2], op.patches[1]>>]

\* the patch names lines of the file and carries the hash of those lines
HashedRight(p, fs) ==
    LET lines == splitlines(fs.data)
    IN  /\ ~Untypable(p)
        /\ 1 <= PatchStart(p) /\ PatchStart(p) <= ResolveEnd(p, Len(lines))
        /\ ResolveEnd(p, Len(lines)) <= Len(lines)
        /\ PatchHash(p) = hash(join(SubSeq(lines, PatchStart(p),
                                           ResolveEnd(p, Len(lines)))))

\* the file operation just processed had two patches on disjoint line ranges
\* of an existing file, with the right file hash and the right range hashes
TwoDisjointPatches ==
    /\ EditedFile
    /\ Len(last.op.patches) = 2
    /\ last.pre.exists
    /\ last.op.file_hash = hash(last.pre.data)
    /\ HashedRight(last.op.patches[1], last.pre)
    /\ HashedRight(last.op.patches[2], last.pre)
    /\ ~IntersectingPatches

FirstThenSecond(c, d) ==
    /\ calls[c].pc = "done" /\ calls[d].pc = "done"
    /\ calls[c].order < calls[d].order
    /\ calls[c].op.file_hash = calls[d].op.file_hash
    /\ calls[c].snap.exists
    /\ calls[c].op.file_hash = hash(calls[c].snap.data)

\* d's call read the file before c's call wrote it
Interleaved(c, d) == FirstThenSecond(c, d) /\ ~calls[d].late

HashMismatch(c) == calls[c].entry.reason = "file hash mismatch"

\* C12: two edit calls on one path under the same valid file_hash are not
\* serialized.  When the second reads before the first has written, neither
\* fails the hash comparison, the second gets the entry it would get had the
\* first never run, and when it is ok the file ends as the second's result
\* alone; the second fails with a hash mismatch only when it read after the
\* first wrote, and then it does so whenever the first changed the content.
C12_UnserializedEdits ==
    \A c, d \in Callers :
        FirstThenSecond(c, d) =>
            LET alone == EditFile(calls[c].snap, calls[d].op)
                path == calls[d].op.path
            IN  /\ Interleaved(c, d) =>
                    /\ ~HashMismatch(c) /\ ~HashMismatch(d)
                    /\ calls[d].entry = alone.entry
                    /\ calls[d].entry.result = "ok" => disk[path] = alone.file
                /\ HashMismatch(d) => calls[d].late
                /\ /\ calls[d].late
                   /\ calls[c].entry.result = "ok"
                   /\ calls[c].entry.file_hash # calls[c].op.file_hash
                   => /\ HashMismatch(d)
                      /\ calls[d].entry.file_hash = calls[c].entry.file_hash
                      /\ hash(disk[path].data) = calls[c].entry.file_hash

\* both calls read "a\nb\n" before either wrote, both returned ok with
\* different hashes, and the file is what the later writer made of "a\nb\n":
\* the update reported to the earlier one is gone
C12_Witness ==
    \E c, d \in Callers :
        /\ Interleaved(c, d)
        /\ calls[c].snap = File(CAB) /\ calls[d].snap = File(CAB)
        /\ calls[c].op.patches = <<Rep1>> /\ calls[d].op.patches = <<Rep2>>
        /\ calls[c].entry.result = "ok" /\ calls[d].entry.result = "ok"
        /\ calls[c].entry.file_hash # calls[d].entry.file_hash
        /\ disk[PathA] = File(<<"a", NL, "a", NL>>)
        /\ hash(disk[PathA].data) = calls[d].entry.file_hash

\* C13: when an Edit call returns its result mapping, every path whose
\* content the call changed maps to an entry with result "ok" whose file_hash
\* is the hash of the content the call left in that file, also when the
\* batch lists a path more than once.
C13_ChangedPathsReportedOk ==
    tool = "edit" /\ status = "returned" =>
        \A p \in DOMAIN changed :
            /\ p \in DOMAIN results
            /\ results[p].result = "ok"
            /\ results[p].file_hash = hash(changed[p].data)

\* the append went through the engine and came back ok
AppendedOk ==
    /\ AppendCalled
    /\ last.step = "edit"
    /\ status = "returned"
    /\ results.result = "ok"

\* C14: Append takes total_lines from its own read and the engine reads the
\* file again.  When the file the engine finds is not the content the handler
\* read, the append is not applied; whenever Append returns ok, the patch was
\* applied to content whose hash is the caller's file_hash, every line of
\* that content is a line of the new file, unchanged and in place, and the
\* lines of the appended contents (newline added when missing) follow.
C14_AppendKeepsLines ==
    /\ AppendCalled /\ last.step = "edit" /\ last.pre # File(last.content) =>
            ~AppendedOk /\ disk[last.args.path] = last.pre
    /\ AppendedOk =>
            LET old == splitlines(last.pre.data)
                new == splitlines(disk[last.args.path].data)
            IN  /\ last.pre.exists
                /\ hash(last.pre.data) = last.args.file_hash
                /\ last.total_lines = Len(old)
                /\ Len(new) >= Len(old)
                /\ SubSeq(new, 1, Len(old)) = old
                /\ SubSeq(new, Len(old) + 1, Len(new))
                      = splitlines(append_content(last.args.contents))

====
